---- MODULE Spec2Model ----
(***************************************************************************)
(* Model of the HAB command records of src/src/imx/im/commands.py:         *)
(* the eight command classes (NopCmd, WriteDataCmd, CheckDataCmd, SetCmd,  *)
(* InitializeCmd, UnlockCmd, InstallKeyCmd, AuthDataCmd), their            *)
(* constructors, setters, append/pop/clear, parse and export.              *)
(*                                                                         *)
(* One command object is modelled.  Buffers are sequences of bytes         *)
(* (1-indexed here, 0-indexed in Python: Python's data[i] is data[i+1]).   *)
(* A Python int that is packed as a 32-bit word is kept as a pair          *)
(* <<hi, lo>> standing for hi * 65536 + lo with lo in 0..65535 and hi any  *)
(* integer, so that 0xFFFFFFFF, -1 and 0x100000000 are all exact.          *)
(* The Header class (src/imx/im/header.py) is not among the source files;  *)
(* it is modelled from the description of the record header.               *)
(***************************************************************************)
EXTENDS Integers, Sequences, FiniteSets, TLC

VARIABLES cmd, last, hist

vars == <<cmd, last, hist>>

\* Largest number of body records a command may hold in the model.
MaxBody == 2

(***************************************************************************)
(* Integers and bit operations                                             *)
(***************************************************************************)

RECURSIVE BitAnd(_, _)
\* Python's x & y for non-negative x, y.
BitAnd(x, y) ==
    IF x = 0 \/ y = 0 THEN 0
    ELSE (IF x % 2 = 1 /\ y % 2 = 1 THEN 1 ELSE 0) + 2 * BitAnd(x \div 2, y \div 2)

RECURSIVE BitOr(_, _)
\* Python's x | y for non-negative x, y.
BitOr(x, y) ==
    IF x = 0 THEN y
    ELSE IF y = 0 THEN x
    ELSE (IF x % 2 = 1 \/ y % 2 = 1 THEN 1 ELSE 0) + 2 * BitOr(x \div 2, y \div 2)

\* Python's x & ~m for non-negative x, m.
BitClear(x, m) == x - BitAnd(x, m)

\* A Python int hi * 65536 + lo.
W(hi, lo) == <<hi, lo>>

\* 0 <= n <= 0xFFFFFFFF
InU32(n) == 0 <= n[1] /\ n[1] <= 65535

\* 0 <= n < 0xFFFFFFFF
BelowMaxU32(n) == InU32(n) /\ n # W(65535, 65535)

\* 0 <= b < 256: the value fits struct's "B".
InU8(b) == 0 <= b /\ b <= 255

\* struct.pack(">L", n) for n in range.
PackL(n) == <<n[1] \div 256, n[1] % 256, n[2] \div 256, n[2] % 256>>

\* struct.unpack_from(">L", data, at)[0]; at is Python's 0-based offset.
UnpackL(data, at) ==
    W(data[at + 1] * 256 + data[at + 2], data[at + 3] * 256 + data[at + 4])

\* Whether unpack_from of size bytes at offset at stays inside data (it raises
\* struct.error otherwise).
CanUnpack(data, at, size) == at >= 0 /\ at + size <= Len(data)

(***************************************************************************)
(* Enumerated domains: IntEnum.CheckValue is membership in the values.     *)
(***************************************************************************)

BytesEnum == {4, 2, 1}
WriteOpsEnum == {0, 1, 2, 3}
CheckOpsEnum == {0, 1, 2, 3}
AlgorithmEnum == {0, 1, 2, 3, 4, 5, 6, 7, 17, 23, 27, 33, 85, 102, 113}
ProtocolEnum == {3, 9, 197, 187, 163}
InsKeyEnum == {0, 1, 2, 4, 8, 16, 32, 64, 128}
AuthEnum == {0, 1}
EngineEnum == {0, 3, 5, 6, 10, 12, 27, 29, 30, 33, 34, 54, 36, 255}
ItmEnum == {1, 3}

CheckValue(enum, value) == value \in enum

(***************************************************************************)
(* Header (collaborator): tag, 16-bit big-endian length, param.            *)
(***************************************************************************)

HEADER_SIZE == 4

\* The tag byte of each command class (CmdTag of the header module).
CmdTag(kind) ==
    CASE kind = "Nop" -> 192
      [] kind = "WriteData" -> 204
      [] kind = "CheckData" -> 207
      [] kind = "Set" -> 177
      [] kind = "Initialize" -> 180
      [] kind = "Unlock" -> 178
      [] kind = "InstallKey" -> 190
      [] kind = "AuthData" -> 202
      [] OTHER -> 0

\* Header(tag, param): the length starts at the header's own size.
Header(tag, param) == [tag |-> tag, length |-> HEADER_SIZE, param |-> param]

\* Header.parse(data, offset): fails when fewer than 4 bytes remain, else
\* takes tag, length and param from the wire.
HeaderParse(h, data, offset) ==
    IF ~CanUnpack(data, offset, HEADER_SIZE)
    THEN [ok |-> FALSE, header |-> h]
    ELSE [ok |-> TRUE,
          header |-> [tag |-> data[offset + 1],
                      length |-> data[offset + 2] * 256 + data[offset + 3],
                      param |-> data[offset + 4]]]

\* Header.export(): the four header bytes; the fields must fit their slots.
HeaderExport(h) ==
    IF InU8(h.tag) /\ 0 <= h.length /\ h.length <= 65535 /\ InU8(h.param)
    THEN [ok |-> TRUE, bytes |-> <<h.tag, h.length \div 256, h.length % 256, h.param>>]
    ELSE [ok |-> FALSE, bytes |-> <<>>]

(***************************************************************************)
(* Command objects.  A command is [kind, header, pfx, body]: header is the *)
(* object's _header, body its list of records (_wrdata, _chdata, _data,    *)
(* _hash, _blocks), pfx the tuple of its fixed fields: <<pcl, alg, src,    *)
(* tgt, keydat>> for InstallKeyCmd, <<key, pcl, eng, cfg, auth_start>> for *)
(* AuthDataCmd, <<>> for the others.  An operation yields [ok, cmd]: ok is *)
(* FALSE when the call raised, and cmd is the object as the call left it.  *)
(***************************************************************************)

NoCmd == [kind |-> "None", header |-> Header(0, 0), pfx |-> <<>>, body |-> <<>>]

Ok(c) == [ok |-> TRUE, cmd |-> c]
Raise(c) == [ok |-> FALSE, cmd |-> c]

RECURSIVE Concat(_)
\* The concatenation of a sequence of byte strings.
Concat(ss) == IF ss = <<>> THEN <<>> ELSE Head(ss) \o Concat(Tail(ss))

\* raw_data = header bytes, then += the fixed fields, then += pack(...) of
\* every record in order; packed is the sequence of the records' pack results,
\* and a pack that raises makes export raise.
ExportWith(c, fixed, packed) ==
    LET h == HeaderExport(c.header) IN
    IF h.ok /\ fixed.ok /\ \A i \in 1..Len(packed) : packed[i].ok
    THEN [ok |-> TRUE,
          bytes |-> h.bytes \o fixed.bytes
                    \o Concat([i \in 1..Len(packed) |-> packed[i].bytes])]
    ELSE [ok |-> FALSE, bytes |-> <<>>]

NoFixed == [ok |-> TRUE, bytes |-> <<>>]

\* A pop that always removes the last element, whatever the index.
ListPopLast(list, index) == SubSeq(list, 1, Len(list) - 1)

\* list.pop(index) for 0 <= index < len(list).
ListPop(list, index) ==
    [i \in 1..(Len(list) - 1) |-> IF i <= index THEN list[i] ELSE list[i + 1]]

(***************************************************************************)
(* WriteDataCmd                                                            *)
(***************************************************************************)

WriteDataBytes(c) == BitAnd(c.header.param, 7)

\* The bytes setter without its "param &= ~0x7": the old width stays set.
WriteDataSetBytesNoClear(c, value) ==
    IF ~CheckValue(BytesEnum, value) THEN Raise(c)
    ELSE Ok([c EXCEPT !.header.param = BitOr(@, value)])

WriteDataSetBytes(c, value) ==
    IF ~CheckValue(BytesEnum, value) THEN Raise(c)
    ELSE Ok([c EXCEPT !.header.param = BitOr(BitClear(@, 7), value)])

WriteDataOps(c) == BitAnd(c.header.param \div 8, 3)

WriteDataSetOps(c, value) ==
    IF ~CheckValue(WriteOpsEnum, value) THEN Raise(c)
    ELSE Ok([c EXCEPT !.header.param = BitOr(BitClear(@, 3 * 8), value * 8)])

WriteDataCmd(bytes, ops) ==
    IF ~CheckValue(BytesEnum, bytes) \/ ~CheckValue(WriteOpsEnum, ops) THEN Raise(NoCmd)
    ELSE Ok([kind |-> "WriteData",
             header |-> Header(CmdTag("WriteData"),
                               BitOr(BitAnd(ops, 3) * 8, BitAnd(bytes, 7))),
             pfx |-> <<>>, body |-> <<>>])

\* append without its "length += 8".
WriteDataAppendNoLength(c, address, value) ==
    IF ~InU32(address) \/ ~InU32(value) THEN Raise(c)
    ELSE Ok([c EXCEPT !.body = Append(@, <<address, value>>)])

WriteDataAppend(c, address, value) ==
    IF ~InU32(address) \/ ~InU32(value) THEN Raise(c)
    ELSE Ok([c EXCEPT !.body = Append(@, <<address, value>>),
                      !.header.length = @ + 8])

WriteDataPop(c, index) ==
    IF ~(0 <= index /\ index < Len(c.body)) THEN Raise(c)
    ELSE Ok([c EXCEPT !.body = ListPop(@, index), !.header.length = @ - 8])

WriteDataClear(c) == Ok([c EXCEPT !.body = <<>>, !.header.length = HEADER_SIZE])

RECURSIVE WriteDataParseLoop(_, _, _, _, _)
\* The while loop of parse; rd is the end of the bytes read so far.
WriteDataParseLoop(c, data, offset, tmp_size, rd) ==
    IF tmp_size < c.header.length
    THEN IF ~(offset + tmp_size < Len(data)) \/ ~CanUnpack(data, offset + tmp_size, 8)
         THEN [ok |-> FALSE, cmd |-> c, rd |-> rd]
         ELSE WriteDataParseLoop(
                  [c EXCEPT !.body = Append(@, <<UnpackL(data, offset + tmp_size),
                                                 UnpackL(data, offset + tmp_size + 4)>>)],
                  data, offset, tmp_size + 8, offset + tmp_size + 8)
    ELSE [ok |-> TRUE, cmd |-> c, rd |-> rd]

WriteDataParse(c, data, offset) ==
    LET h == HeaderParse(c.header, data, offset) IN
    IF ~h.ok THEN [ok |-> FALSE, cmd |-> c, rd |-> 0]
    ELSE WriteDataParseLoop([c EXCEPT !.header = h.header], data, offset,
                            HEADER_SIZE, offset + HEADER_SIZE)

\* struct.pack(">LL", r[0], r[1])
PackLL(r) ==
    IF InU32(r[1]) /\ InU32(r[2])
    THEN [ok |-> TRUE, bytes |-> PackL(r[1]) \o PackL(r[2])]
    ELSE [ok |-> FALSE, bytes |-> <<>>]

WriteDataExport(c) ==
    ExportWith(c, NoFixed, [i \in 1..Len(c.body) |-> PackLL(c.body[i])])

(***************************************************************************)
(* CheckDataCmd: the same code as WriteDataCmd over _chdata, with          *)
(* CheckOpsEnum for the op-code.                                           *)
(***************************************************************************)

CheckDataBytes(c) == BitAnd(c.header.param, 7)

CheckDataSetBytes(c, value) ==
    IF ~CheckValue(BytesEnum, value) THEN Raise(c)
    ELSE Ok([c EXCEPT !.header.param = BitOr(BitClear(@, 7), value)])

CheckDataOps(c) == BitAnd(c.header.param \div 8, 3)

CheckDataSetOps(c, value) ==
    IF ~CheckValue(CheckOpsEnum, value) THEN Raise(c)
    ELSE Ok([c EXCEPT !.header.param = BitOr(BitClear(@, 3 * 8), value * 8)])

CheckDataCmd(bytes, ops) ==
    IF ~CheckValue(BytesEnum, bytes) \/ ~CheckValue(CheckOpsEnum, ops) THEN Raise(NoCmd)
    ELSE Ok([kind |-> "CheckData",
             header |-> Header(CmdTag("CheckData"),
                               BitOr(BitAnd(ops, 3) * 8, BitAnd(bytes, 7))),
             pfx |-> <<>>, body |-> <<>>])

CheckDataAppend(c, address, value) ==
    IF ~InU32(address) \/ ~InU32(value) THEN Raise(c)
    ELSE Ok([c EXCEPT !.body = Append(@, <<address, value>>),
                      !.header.length = @ + 8])

CheckDataPop(c, index) ==
    IF ~(0 <= index /\ index < Len(c.body)) THEN Raise(c)
    ELSE Ok([c EXCEPT !.body = ListPop(@, index), !.header.length = @ - 8])

CheckDataClear(c) == Ok([c EXCEPT !.body = <<>>, !.header.length = HEADER_SIZE])

RECURSIVE CheckDataParseLoop(_, _, _, _, _)
CheckDataParseLoop(c, data, offset, tmp_size, rd) ==
    IF tmp_size < c.header.length
    THEN IF ~(offset + tmp_size < Len(data)) \/ ~CanUnpack(data, offset + tmp_size, 8)
         THEN [ok |-> FALSE, cmd |-> c, rd |-> rd]
         ELSE CheckDataParseLoop(
                  [c EXCEPT !.body = Append(@, <<UnpackL(data, offset + tmp_size),
                                                 UnpackL(data, offset + tmp_size + 4)>>)],
                  data, offset, tmp_size + 8, offset + tmp_size + 8)
    ELSE [ok |-> TRUE, cmd |-> c, rd |-> rd]

CheckDataParse(c, data, offset) ==
    LET h == HeaderParse(c.header, data, offset) IN
    IF ~h.ok THEN [ok |-> FALSE, cmd |-> c, rd |-> 0]
    ELSE CheckDataParseLoop([c EXCEPT !.header = h.header], data, offset,
                            HEADER_SIZE, offset + HEADER_SIZE)

CheckDataExport(c) ==
    ExportWith(c, NoFixed, [i \in 1..Len(c.body) |-> PackLL(c.body[i])])

(***************************************************************************)
(* NopCmd                                                                  *)
(***************************************************************************)

NopCmd(param) ==
    Ok([kind |-> "Nop", header |-> Header(CmdTag("Nop"), param),
        pfx |-> <<>>, body |-> <<>>])

NopParse(c, data, offset) ==
    LET h == HeaderParse(c.header, data, offset) IN
    IF ~h.ok THEN [ok |-> FALSE, cmd |-> c, rd |-> 0]
    ELSE [ok |-> TRUE, cmd |-> [c EXCEPT !.header = h.header],
          rd |-> offset + HEADER_SIZE]

NopExport(c) == HeaderExport(c.header)

(***************************************************************************)
(* SetCmd: records <<alg, eng, cfg>>                                       *)
(***************************************************************************)

SetItm(c) == c.header.param

SetSetItm(c, value) ==
    IF ~CheckValue(ItmEnum, value) THEN Raise(c)
    ELSE Ok([c EXCEPT !.header.param = value])

\* data is the caller's list, <<>> standing for None: self._data = data if
\* data else [], and the header's length is left as Header set it.
SetCmd(itm, data) ==
    IF ~CheckValue(ItmEnum, itm) THEN Raise(NoCmd)
    ELSE Ok([kind |-> "Set", header |-> Header(CmdTag("Set"), itm),
             pfx |-> <<>>, body |-> data])

SetAppend(c, alg, eng, cfg) ==
    IF ~CheckValue(AlgorithmEnum, alg) \/ ~CheckValue(EngineEnum, eng)
       \/ ~(0 <= cfg /\ cfg < 256)
    THEN Raise(c)
    ELSE Ok([c EXCEPT !.body = Append(@, <<alg, eng, cfg>>),
                      !.header.length = @ + 4])

SetPop(c, index) ==
    IF ~(0 <= index /\ index < Len(c.body)) THEN Raise(c)
    ELSE Ok([c EXCEPT !.body = ListPop(@, index), !.header.length = @ - 4])

SetClear(c) == Ok([c EXCEPT !.body = <<>>, !.header.length = HEADER_SIZE])

RECURSIVE SetParseLoop(_, _, _, _, _)
SetParseLoop(c, data, offset, index, rd) ==
    IF index < c.header.length
    THEN IF ~(offset + index < Len(data)) \/ ~CanUnpack(data, offset + index, 4)
         THEN [ok |-> FALSE, cmd |-> c, rd |-> rd]
         ELSE SetParseLoop(
                  [c EXCEPT !.body = Append(@, <<data[offset + index + 2],
                                                 data[offset + index + 3],
                                                 data[offset + index + 4]>>)],
                  data, offset, index + 4, offset + index + 4)
    ELSE [ok |-> TRUE, cmd |-> c, rd |-> rd]

SetParse(c, data, offset) ==
    LET h == HeaderParse(c.header, data, offset) IN
    IF ~h.ok THEN [ok |-> FALSE, cmd |-> c, rd |-> 0]
    ELSE SetParseLoop([c EXCEPT !.header = h.header], data, offset,
                      HEADER_SIZE, offset + HEADER_SIZE)

\* struct.pack("4B", 0x00, r[0], r[1], r[2])
Pack4B(r) ==
    IF InU8(r[1]) /\ InU8(r[2]) /\ InU8(r[3])
    THEN [ok |-> TRUE, bytes |-> <<0, r[1], r[2], r[3]>>]
    ELSE [ok |-> FALSE, bytes |-> <<>>]

SetExport(c) == ExportWith(c, NoFixed, [i \in 1..Len(c.body) |-> Pack4B(c.body[i])])

(***************************************************************************)
(* InitializeCmd: records are 32-bit values                                *)
(***************************************************************************)

InitializeEngine(c) == c.header.param

InitializeSetEngine(c, value) ==
    IF ~CheckValue(EngineEnum, value) THEN Raise(c)
    ELSE Ok([c EXCEPT !.header.param = value])

InitializeCmd(engine, data) ==
    IF ~CheckValue(EngineEnum, engine) THEN Raise(NoCmd)
    ELSE Ok([kind |-> "Initialize", header |-> Header(CmdTag("Initialize"), engine),
             pfx |-> <<>>, body |-> data])

InitializeAppend(c, value) ==
    IF ~BelowMaxU32(value) THEN Raise(c)
    ELSE Ok([c EXCEPT !.body = Append(@, value), !.header.length = @ + 4])

InitializePop(c, index) ==
    IF ~(0 <= index /\ index < Len(c.body)) THEN Raise(c)
    ELSE Ok([c EXCEPT !.body = ListPop(@, index), !.header.length = @ - 4])

InitializeClear(c) == Ok([c EXCEPT !.body = <<>>, !.header.length = HEADER_SIZE])

RECURSIVE InitializeParseLoop(_, _, _, _, _)
InitializeParseLoop(c, data, offset, index, rd) ==
    IF index < c.header.length
    THEN IF ~(offset + index < Len(data)) \/ ~CanUnpack(data, offset + index, 4)
         THEN [ok |-> FALSE, cmd |-> c, rd |-> rd]
         ELSE InitializeParseLoop(
                  [c EXCEPT !.body = Append(@, UnpackL(data, offset + index))],
                  data, offset, index + 4, offset + index + 4)
    ELSE [ok |-> TRUE, cmd |-> c, rd |-> rd]

InitializeParse(c, data, offset) ==
    LET h == HeaderParse(c.header, data, offset) IN
    IF ~h.ok THEN [ok |-> FALSE, cmd |-> c, rd |-> 0]
    ELSE InitializeParseLoop([c EXCEPT !.header = h.header], data, offset,
                             HEADER_SIZE, offset + HEADER_SIZE)

\* struct.pack(">L", val)
PackVal(val) ==
    IF InU32(val) THEN [ok |-> TRUE, bytes |-> PackL(val)]
    ELSE [ok |-> FALSE, bytes |-> <<>>]

InitializeExport(c) ==
    ExportWith(c, NoFixed, [i \in 1..Len(c.body) |-> PackVal(c.body[i])])

(***************************************************************************)
(* UnlockCmd: the same code as InitializeCmd                               *)
(***************************************************************************)

UnlockEngine(c) == c.header.param

UnlockSetEngine(c, value) ==
    IF ~CheckValue(EngineEnum, value) THEN Raise(c)
    ELSE Ok([c EXCEPT !.header.param = value])

UnlockCmd(engine, data) ==
    IF ~CheckValue(EngineEnum, engine) THEN Raise(NoCmd)
    ELSE Ok([kind |-> "Unlock", header |-> Header(CmdTag("Unlock"), engine),
             pfx |-> <<>>, body |-> data])

UnlockAppend(c, value) ==
    IF ~BelowMaxU32(value) THEN Raise(c)
    ELSE Ok([c EXCEPT !.body = Append(@, value), !.header.length = @ + 4])

UnlockPop(c, index) ==
    IF ~(0 <= index /\ index < Len(c.body)) THEN Raise(c)
    ELSE Ok([c EXCEPT !.body = ListPop(@, index), !.header.length = @ - 4])

UnlockClear(c) == Ok([c EXCEPT !.body = <<>>, !.header.length = HEADER_SIZE])

RECURSIVE UnlockParseLoop(_, _, _, _, _)
UnlockParseLoop(c, data, offset, index, rd) ==
    IF index < c.header.length
    THEN IF ~(offset + index < Len(data)) \/ ~CanUnpack(data, offset + index, 4)
         THEN [ok |-> FALSE, cmd |-> c, rd |-> rd]
         ELSE UnlockParseLoop(
                  [c EXCEPT !.body = Append(@, UnpackL(data, offset + index))],
                  data, offset, index + 4, offset + index + 4)
    ELSE [ok |-> TRUE, cmd |-> c, rd |-> rd]

UnlockParse(c, data, offset) ==
    LET h == HeaderParse(c.header, data, offset) IN
    IF ~h.ok THEN [ok |-> FALSE, cmd |-> c, rd |-> 0]
    ELSE UnlockParseLoop([c EXCEPT !.header = h.header], data, offset,
                         HEADER_SIZE, offset + HEADER_SIZE)

UnlockExport(c) ==
    ExportWith(c, NoFixed, [i \in 1..Len(c.body) |-> PackVal(c.body[i])])

(***************************************************************************)
(* InstallKeyCmd: pfx = <<pcl, alg, src, tgt, keydat>>; a record of _hash  *)
(* is the 1-tuple <<word>> that unpack_from returned.                      *)
(***************************************************************************)

InstallKeyParam(c) == c.header.param

InstallKeySetParam(c, value) ==
    IF ~CheckValue(InsKeyEnum, value) THEN Raise(c)
    ELSE Ok([c EXCEPT !.header.param = value])

InstallKeySetPcl(c, value) ==
    IF ~CheckValue(ProtocolEnum, value) THEN Raise(c)
    ELSE Ok([c EXCEPT !.pfx[1] = value])

InstallKeySetAlg(c, value) ==
    IF ~CheckValue(AlgorithmEnum, value) THEN Raise(c)
    ELSE Ok([c EXCEPT !.pfx[2] = value])

InstallKeySetSrc(c, value) == Ok([c EXCEPT !.pfx[3] = value])

InstallKeySetTgt(c, value) == Ok([c EXCEPT !.pfx[4] = value])

InstallKeySetKeydat(c, value) == Ok([c EXCEPT !.pfx[5] = value])

\* The header takes param as given; pcl and alg go through their setters.
InstallKeyCmd(param, pcl, alg, src, tgt, keydat) ==
    IF ~CheckValue(ProtocolEnum, pcl) \/ ~CheckValue(AlgorithmEnum, alg) THEN Raise(NoCmd)
    ELSE Ok([kind |-> "InstallKey", header |-> Header(CmdTag("InstallKey"), param),
             pfx |-> <<pcl, alg, src, tgt, keydat>>, body |-> <<>>])

RECURSIVE InstallKeyParseLoop(_, _, _, _, _)
InstallKeyParseLoop(c, data, offset, index, rd) ==
    IF index < c.header.length
    THEN IF ~(offset + index < Len(data)) \/ ~CanUnpack(data, offset + index, 4)
         THEN [ok |-> FALSE, cmd |-> c, rd |-> rd]
         ELSE InstallKeyParseLoop(
                  [c EXCEPT !.body = Append(@, <<UnpackL(data, offset + index)>>)],
                  data, offset, index + 4, offset + index + 4)
    ELSE [ok |-> TRUE, cmd |-> c, rd |-> rd]

\* unpack_from(">BBBBL") comes first; the tuple assignment then runs the
\* setters left to right, so a setter that raises leaves the earlier ones done.
InstallKeyParse(c, data, offset) ==
    LET h == HeaderParse(c.header, data, offset)
        c1 == [c EXCEPT !.header = h.header]
        at == offset + HEADER_SIZE
        rd == at + 8
        s1 == InstallKeySetPcl(c1, data[at + 1])
        s2 == InstallKeySetAlg(s1.cmd, data[at + 2])
        c3 == [s2.cmd EXCEPT !.pfx[3] = data[at + 3], !.pfx[4] = data[at + 4],
                             !.pfx[5] = UnpackL(data, at + 4)]
    IN  IF ~h.ok THEN [ok |-> FALSE, cmd |-> c, rd |-> 0]
        ELSE IF ~CanUnpack(data, at, 8) THEN [ok |-> FALSE, cmd |-> c1, rd |-> at]
        ELSE IF ~s1.ok THEN [ok |-> FALSE, cmd |-> c1, rd |-> rd]
        ELSE IF ~s2.ok THEN [ok |-> FALSE, cmd |-> s1.cmd, rd |-> rd]
        ELSE InstallKeyParseLoop(c3, data, offset, HEADER_SIZE + 8, rd)

\* struct.pack(">BBBBL", f[0], f[1], f[2], f[3], f[4])
PackBBBBL(f) ==
    IF InU8(f[1]) /\ InU8(f[2]) /\ InU8(f[3]) /\ InU8(f[4]) /\ InU32(f[5])
    THEN [ok |-> TRUE, bytes |-> <<f[1], f[2], f[3], f[4]>> \o PackL(f[5])]
    ELSE [ok |-> FALSE, bytes |-> <<>>]

\* struct.pack(">L", val) with val a tuple, not an integer: struct.error.
PackHash(val) == [ok |-> FALSE, bytes |-> <<>>]

InstallKeyExport(c) ==
    ExportWith(c, PackBBBBL(c.pfx), [i \in 1..Len(c.body) |-> PackHash(c.body[i])])

(***************************************************************************)
(* AuthDataCmd: pfx = <<key, pcl, eng, cfg, auth_start>>; records          *)
(* <<start_address, size>>.  The auth_data attribute is stored and never   *)
(* read by any method, and is left out.                                    *)
(***************************************************************************)

AuthDataFlag(c) == c.header.param

AuthDataSetFlag(c, value) ==
    IF ~CheckValue(AuthEnum, value) THEN Raise(c)
    ELSE Ok([c EXCEPT !.header.param = value])

AuthDataSetKey(c, value) == Ok([c EXCEPT !.pfx[1] = value])

AuthDataSetPcl(c, value) ==
    IF ~CheckValue(ProtocolEnum, value) THEN Raise(c)
    ELSE Ok([c EXCEPT !.pfx[2] = value])

AuthDataSetEng(c, value) ==
    IF ~CheckValue(EngineEnum, value) THEN Raise(c)
    ELSE Ok([c EXCEPT !.pfx[3] = value])

AuthDataSetCfg(c, value) == Ok([c EXCEPT !.pfx[4] = value])

AuthDataSetAuthStart(c, value) == Ok([c EXCEPT !.pfx[5] = value])

\* The header takes flag as given; pcl and eng go through their setters.
AuthDataCmd(flag, key, pcl, eng, cfg, auth_start) ==
    IF ~CheckValue(ProtocolEnum, pcl) \/ ~CheckValue(EngineEnum, eng) THEN Raise(NoCmd)
    ELSE Ok([kind |-> "AuthData", header |-> Header(CmdTag("AuthData"), flag),
             pfx |-> <<key, pcl, eng, cfg, auth_start>>, body |-> <<>>])

AuthDataAppend(c, start_address, size) ==
    Ok([c EXCEPT !.body = Append(@, <<start_address, size>>),
                 !.header.length = @ + 8])

AuthDataPop(c, index) ==
    IF ~(0 <= index /\ index < Len(c.body)) THEN Raise(c)
    ELSE Ok([c EXCEPT !.body = ListPop(@, index), !.header.length = @ - 8])

AuthDataClear(c) == Ok([c EXCEPT !.body = <<>>, !.header.length = HEADER_SIZE])

RECURSIVE AuthDataParseLoop(_, _, _, _, _)
AuthDataParseLoop(c, data, offset, index, rd) ==
    IF index < c.header.length
    THEN IF ~CanUnpack(data, offset + index, 8)
         THEN [ok |-> FALSE, cmd |-> c, rd |-> rd]
         ELSE AuthDataParseLoop(
                  [c EXCEPT !.body = Append(@, <<UnpackL(data, offset + index),
                                                 UnpackL(data, offset + index + 4)>>)],
                  data, offset, index + 8, offset + index + 8)
    ELSE [ok |-> TRUE, cmd |-> c, rd |-> rd]

AuthDataParse(c, data, offset) ==
    LET h == HeaderParse(c.header, data, offset)
        c1 == [c EXCEPT !.header = h.header]
        index == HEADER_SIZE
        rd == offset + index + 8
        s1 == AuthDataSetKey(c1, data[offset + index + 1])
        s2 == AuthDataSetPcl(s1.cmd, data[offset + index + 2])
        s3 == AuthDataSetEng(s2.cmd, data[offset + index + 3])
        c5 == [s3.cmd EXCEPT !.pfx[4] = data[offset + index + 4],
                             !.pfx[5] = UnpackL(data, offset + index + 4)]
    IN  IF ~h.ok THEN [ok |-> FALSE, cmd |-> c, rd |-> 0]
        ELSE IF ~CanUnpack(data, offset + index, 8)
             THEN [ok |-> FALSE, cmd |-> c1, rd |-> offset + index]
        ELSE IF ~s2.ok THEN [ok |-> FALSE, cmd |-> s1.cmd, rd |-> rd]
        ELSE IF ~s3.ok THEN [ok |-> FALSE, cmd |-> s2.cmd, rd |-> rd]
        ELSE AuthDataParseLoop(c5, data, offset, index + 8, rd)

AuthDataExport(c) ==
    ExportWith(c, PackBBBBL(c.pfx), [i \in 1..Len(c.body) |-> PackLL(c.body[i])])

(***************************************************************************)
(* Dispatch on the object's class                                          *)
(***************************************************************************)

\* What pop returns: the element list.pop(index) removed.
PopReturn(c, index) == c.body[index + 1]

Pop(c, index) ==
    CASE c.kind = "WriteData" -> WriteDataPop(c, index)
      [] c.kind = "CheckData" -> CheckDataPop(c, index)
      [] c.kind = "Set" -> SetPop(c, index)
      [] c.kind = "Initialize" -> InitializePop(c, index)
      [] c.kind = "Unlock" -> UnlockPop(c, index)
      [] c.kind = "AuthData" -> AuthDataPop(c, index)

Clear(c) ==
    CASE c.kind = "WriteData" -> WriteDataClear(c)
      [] c.kind = "CheckData" -> CheckDataClear(c)
      [] c.kind = "Set" -> SetClear(c)
      [] c.kind = "Initialize" -> InitializeClear(c)
      [] c.kind = "Unlock" -> UnlockClear(c)
      [] c.kind = "AuthData" -> AuthDataClear(c)

ParseCmd(c, data, offset) ==
    CASE c.kind = "Nop" -> NopParse(c, data, offset)
      [] c.kind = "WriteData" -> WriteDataParse(c, data, offset)
      [] c.kind = "CheckData" -> CheckDataParse(c, data, offset)
      [] c.kind = "Set" -> SetParse(c, data, offset)
      [] c.kind = "Initialize" -> InitializeParse(c, data, offset)
      [] c.kind = "Unlock" -> UnlockParse(c, data, offset)
      [] c.kind = "InstallKey" -> InstallKeyParse(c, data, offset)
      [] c.kind = "AuthData" -> AuthDataParse(c, data, offset)

ExportCmd(c) ==
    CASE c.kind = "Nop" -> NopExport(c)
      [] c.kind = "WriteData" -> WriteDataExport(c)
      [] c.kind = "CheckData" -> CheckDataExport(c)
      [] c.kind = "Set" -> SetExport(c)
      [] c.kind = "Initialize" -> InitializeExport(c)
      [] c.kind = "Unlock" -> UnlockExport(c)
      [] c.kind = "InstallKey" -> InstallKeyExport(c)
      [] c.kind = "AuthData" -> AuthDataExport(c)

\* The attribute setters of each class, by attribute name.
SetAttr(c, name, value) ==
    CASE c.kind = "WriteData" /\ name = "bytes" -> WriteDataSetBytes(c, value)
      [] c.kind = "WriteData" /\ name = "ops" -> WriteDataSetOps(c, value)
      [] c.kind = "CheckData" /\ name = "bytes" -> CheckDataSetBytes(c, value)
      [] c.kind = "CheckData" /\ name = "ops" -> CheckDataSetOps(c, value)
      [] c.kind = "Set" /\ name = "itm" -> SetSetItm(c, value)
      [] c.kind = "Initialize" /\ name = "engine" -> InitializeSetEngine(c, value)
      [] c.kind = "Unlock" /\ name = "engine" -> UnlockSetEngine(c, value)
      [] c.kind = "InstallKey" /\ name = "param" -> InstallKeySetParam(c, value)
      [] c.kind = "InstallKey" /\ name = "pcl" -> InstallKeySetPcl(c, value)
      [] c.kind = "InstallKey" /\ name = "alg" -> InstallKeySetAlg(c, value)
      [] c.kind = "InstallKey" /\ name = "src" -> InstallKeySetSrc(c, value)
      [] c.kind = "InstallKey" /\ name = "tgt" -> InstallKeySetTgt(c, value)
      [] c.kind = "InstallKey" /\ name = "keydat" -> InstallKeySetKeydat(c, value)
      [] c.kind = "AuthData" /\ name = "flag" -> AuthDataSetFlag(c, value)
      [] c.kind = "AuthData" /\ name = "key" -> AuthDataSetKey(c, value)
      [] c.kind = "AuthData" /\ name = "pcl" -> AuthDataSetPcl(c, value)
      [] c.kind = "AuthData" /\ name = "eng" -> AuthDataSetEng(c, value)
      [] c.kind = "AuthData" /\ name = "cfg" -> AuthDataSetCfg(c, value)
      [] c.kind = "AuthData" /\ name = "auth_start" -> AuthDataSetAuthStart(c, value)

\* The closed domain of an enumerated attribute (ops by class).
EnumOf(kind, name) ==
    CASE name = "bytes" -> BytesEnum
      [] name = "ops" /\ kind = "WriteData" -> WriteOpsEnum
      [] name = "ops" /\ kind = "CheckData" -> CheckOpsEnum
      [] name = "itm" -> ItmEnum
      [] name = "engine" -> EngineEnum
      [] name = "eng" -> EngineEnum
      [] name = "param" -> InsKeyEnum
      [] name = "flag" -> AuthEnum
      [] name = "pcl" -> ProtocolEnum
      [] name = "alg" -> AlgorithmEnum

BodyKinds == {"WriteData", "CheckData", "Set", "Initialize", "Unlock", "AuthData"}

\* Encoded size of one body record, and of the fixed fields export writes.
ElemSize(kind) ==
    CASE kind \in {"WriteData", "CheckData", "AuthData"} -> 8
      [] kind \in {"Set", "Initialize", "Unlock", "InstallKey"} -> 4
      [] OTHER -> 0

PrefixSize(kind) == IF kind \in {"InstallKey", "AuthData"} THEN 8 ELSE 0

(***************************************************************************)
(* Inputs of the calls                                                     *)
(***************************************************************************)

\* 32-bit operands: 0, 0x10, 0xDEADBEEF, 0xFFFFFFFF, and -1 and 0x100000000
\* outside the range.
AddressInputs == {W(0, 16), W(-1, 65535)}
ValueInputs == {W(0, 0), W(57005, 48879), W(65535, 65535), W(65536, 0)}
ScalarInputs == {W(0, 16), W(57005, 48879), W(65535, 65535), W(-1, 65535)}
BlockInputs == {<<W(0, 4096), W(0, 512)>>, <<W(0, 8192), W(0, 1024)>>}

\* Values offered to each attribute, inside and outside its domain.
AttrInputs(name) ==
    CASE name = "bytes" -> {1, 2, 4, 3}
      [] name = "ops" -> {0, 1, 2, 3, 7}
      [] name = "itm" -> {1, 3, 2}
      [] name \in {"engine", "eng"} -> {0, 29, 1}
      [] name = "param" -> {0, 4, 3}
      [] name = "flag" -> {0, 1, 2}
      [] name = "pcl" -> {3, 153}
      [] name = "alg" -> {0, 23, 153}
      [] name \in {"src", "key"} -> {0, 256}
      [] name = "tgt" -> {0, 1}
      [] name = "cfg" -> {0}
      [] name = "keydat" -> {W(0, 0), W(144, 0)}
      [] name = "auth_start" -> {W(0, 0), W(0, 4096)}

Attrs(kind) ==
    CASE kind \in {"WriteData", "CheckData"} -> {"bytes", "ops"}
      [] kind = "Set" -> {"itm"}
      [] kind \in {"Initialize", "Unlock"} -> {"engine"}
      [] kind = "InstallKey" -> {"param", "pcl", "alg", "src", "tgt", "keydat"}
      [] kind = "AuthData" -> {"flag", "key", "pcl", "eng", "cfg", "auth_start"}
      [] OTHER -> {}

EnumAttrs == {"bytes", "ops", "itm", "engine", "eng", "param", "flag", "pcl", "alg"}

\* Initial data lists of SetCmd and of InitializeCmd/UnlockCmd (<<>>: None).
SetDataInputs == {<<>>, <<<<23, 0, 0>>>>, <<<<23, 0, 0>>, <<0, 29, 5>>>>}
ValDataInputs == {<<>>, <<W(0, 16)>>, <<W(0, 16), W(57005, 48879)>>}

\* Bytes that follow the header in the buffers handed to parse.
Payloads(kind) ==
    CASE kind \in {"WriteData", "CheckData"} ->
             {<<0, 0, 0, 16, 222, 173, 190, 239, 0, 0, 0, 16, 0, 0, 0, 0>>}
      [] kind = "Set" -> {<<0, 23, 0, 0, 0, 153, 29, 255>>}
      [] kind \in {"Initialize", "Unlock"} -> {<<0, 0, 0, 16, 255, 255, 255, 255>>}
      [] kind = "InstallKey" ->
             {<<3, 23, 0, 1, 0, 144, 0, 0, 222, 173, 190, 239>>,
              <<153, 23, 0, 1, 0, 144, 0, 0, 222, 173, 190, 239>>,
              <<9, 153, 7, 1, 0, 144, 0, 0, 222, 173, 190, 239>>}
      [] kind = "AuthData" ->
             {<<0, 3, 29, 0, 0, 0, 16, 0, 0, 0, 16, 0, 0, 0, 2, 0>>,
              <<7, 153, 29, 0, 0, 0, 16, 0, 0, 0, 16, 0, 0, 0, 2, 0>>,
              <<7, 9, 1, 0, 0, 0, 16, 0, 0, 0, 16, 0, 0, 0, 2, 0>>}
      [] OTHER -> {<<0, 0, 0, 0>>}

\* The length field and the param byte of those buffers.
WireLengths == {0, 4, 6, 12, 16, 20}
WireParam(kind) ==
    CASE kind \in {"WriteData", "CheckData"} -> 26
      [] kind = "Set" -> 1
      [] kind \in {"Initialize", "Unlock"} -> 29
      [] kind = "InstallKey" -> 4
      [] kind = "AuthData" -> 1
      [] OTHER -> 255

\* How many bytes of the record the buffer holds, and where the record starts.
TruncLens == {3, 4, 11, 12, 20}
Offsets == {0, 2}

Min(a, b) == IF a < b THEN a ELSE b

Wire(kind, L, payload) ==
    <<CmdTag(kind), L \div 256, L % 256, WireParam(kind)>> \o payload

ParseInputs(kind) ==
    { [data |-> [i \in 1..off |-> 170]
                \o SubSeq(Wire(kind, L, pl), 1, Min(T, Len(Wire(kind, L, pl)))),
       offset |-> off] :
          L \in WireLengths, pl \in Payloads(kind), T \in TruncLens, off \in Offsets }

(***************************************************************************)
(* State                                                                   *)
(*   cmd:  the command object (NoCmd before construction)                  *)
(*   last: the last call: its name, whether it returned (ok) or raised,    *)
(*         whether an enumerated argument was outside its domain (bad),    *)
(*         and for parse whether the buffer held fewer bytes from offset   *)
(*         than the header (4) or than the length the header declares      *)
(*         (short), and whether a byte after the header was read at or     *)
(*         past offset+length, or any byte past the buffer's end (over)    *)
(*   hist: what has been called on the object so far (mode), and the       *)
(*         byte-width and op-code last written to a Write/Check command    *)
(*         by its constructor or setters (want)                            *)
(* A parse that raises ends the use of the object: the caller gives the    *)
(* record up, and no further call is explored.                             *)
(***************************************************************************)

\* "dflt": built with the default arguments, then only append/pop/clear;
\* "pure": built with other arguments, then only append/pop/clear;
\* "set": a setter was called; "parsed": parse was called and always
\* returned; "pfail": a parse raised.
Rank(mode) ==
    CASE mode = "dflt" -> 0
      [] mode = "pure" -> 1
      [] mode = "set" -> 2
      [] mode = "parsed" -> 3
      [] mode = "pfail" -> 4

Later(mode, m) == IF Rank(mode) >= Rank(m) THEN mode ELSE m

\* No arguments recorded, nothing returned.
NoArg == <<>>
NoRet == <<>>

\* arg: the numeric arguments of an append or the index of a pop;
\* ret: what a pop returned, as a one-element sequence.
CallWith(op, ok, bad, arg, ret) ==
    [op |-> op, ok |-> ok, bad |-> bad, short |-> FALSE, over |-> FALSE,
     arg |-> arg, ret |-> ret]

Call(op, ok, bad) == CallWith(op, ok, bad, NoArg, NoRet)

NoWant == <<0, 0>>

Init ==
    /\ cmd = NoCmd
    /\ last = Call("none", TRUE, FALSE)
    /\ hist = [mode |-> "dflt", want |-> NoWant]

\* The object exists and is still in use.
Live == cmd.kind # "None" /\ hist.mode # "pfail"

\* A constructor call: r is its result, dflt whether the arguments are the
\* defaults, bad whether an enumerated argument is outside its domain.
Construct(r, dflt, bad, want) ==
    /\ cmd.kind = "None"
    /\ cmd' = r.cmd
    /\ last' = Call("init", r.ok, bad)
    /\ hist' = IF r.ok THEN [mode |-> IF dflt THEN "dflt" ELSE "pure", want |-> want]
               ELSE hist

NewWriteData ==
    \E bytes \in AttrInputs("bytes"), ops \in AttrInputs("ops") :
        Construct(WriteDataCmd(bytes, ops), bytes = 4 /\ ops = 0,
                  bytes \notin BytesEnum \/ ops \notin WriteOpsEnum, <<bytes, ops>>)

NewCheckData ==
    \E bytes \in AttrInputs("bytes"), ops \in AttrInputs("ops") :
        Construct(CheckDataCmd(bytes, ops), bytes = 4 /\ ops = 1,
                  bytes \notin BytesEnum \/ ops \notin CheckOpsEnum, <<bytes, ops>>)

NewNop ==
    \E param \in {0, 26} :
        Construct(NopCmd(param), param = 0, FALSE, NoWant)

NewSet ==
    \E itm \in AttrInputs("itm"), data \in SetDataInputs :
        /\ Len(data) <= MaxBody
        /\ Construct(SetCmd(itm, data), itm = 3 /\ data = <<>>,
                     itm \notin ItmEnum, NoWant)

NewInitialize ==
    \E engine \in AttrInputs("engine"), data \in ValDataInputs :
        /\ Len(data) <= MaxBody
        /\ Construct(InitializeCmd(engine, data), engine = 0 /\ data = <<>>,
                     engine \notin EngineEnum, NoWant)

NewUnlock ==
    \E engine \in AttrInputs("engine"), data \in ValDataInputs :
        /\ Len(data) <= MaxBody
        /\ Construct(UnlockCmd(engine, data), engine = 0 /\ data = <<>>,
                     engine \notin EngineEnum, NoWant)

NewInstallKey ==
    \E param \in AttrInputs("param"), pcl \in AttrInputs("pcl"),
       alg \in AttrInputs("alg"), src \in AttrInputs("src"),
       tgt \in AttrInputs("tgt"), keydat \in AttrInputs("keydat") :
        Construct(InstallKeyCmd(param, pcl, alg, src, tgt, keydat),
                  <<param, pcl, alg, src, tgt, keydat>> = <<0, 3, 0, 0, 0, W(0, 0)>>,
                  param \notin InsKeyEnum \/ pcl \notin ProtocolEnum
                     \/ alg \notin AlgorithmEnum,
                  NoWant)

NewAuthData ==
    \E flag \in AttrInputs("flag"), key \in AttrInputs("key"),
       pcl \in AttrInputs("pcl"), eng \in AttrInputs("eng"),
       cfg \in AttrInputs("cfg"), auth_start \in AttrInputs("auth_start") :
        Construct(AuthDataCmd(flag, key, pcl, eng, cfg, auth_start),
                  <<flag, key, pcl, eng, cfg, auth_start>> = <<0, 0, 3, 0, 0, W(0, 0)>>,
                  flag \notin AuthEnum \/ pcl \notin ProtocolEnum
                     \/ eng \notin EngineEnum,
                  NoWant)

\* The constructors called with their default arguments.
NewDefault ==
    \/ Construct(WriteDataCmd(4, 0), TRUE, FALSE, <<4, 0>>)
    \/ Construct(NopCmd(0), TRUE, FALSE, NoWant)
    \/ Construct(CheckDataCmd(4, 1), TRUE, FALSE, <<4, 1>>)
    \/ Construct(InstallKeyCmd(0, 3, 0, 0, 0, W(0, 0)), TRUE, FALSE, NoWant)
    \/ Construct(AuthDataCmd(0, 0, 3, 0, 0, W(0, 0)), TRUE, FALSE, NoWant)

\* A call of a method on the constructed object.
MethodWith(op, r, bad, arg, ret) ==
    /\ Len(r.cmd.body) <= MaxBody
    /\ cmd' = r.cmd
    /\ last' = CallWith(op, r.ok, bad, arg, ret)
    /\ UNCHANGED hist

Method(op, r, bad) == MethodWith(op, r, bad, NoArg, NoRet)

SetAttribute ==
    /\ Live
    /\ \E name \in Attrs(cmd.kind) : \E value \in AttrInputs(name) :
        LET r == SetAttr(cmd, name, value) IN
        /\ cmd' = r.cmd
        /\ last' = Call("set", r.ok, name \in EnumAttrs /\ value \notin EnumOf(cmd.kind, name))
        /\ hist' = [mode |-> Later(hist.mode, "set"),
                    want |-> IF Rank(hist.mode) >= Rank("parsed")
                                \/ cmd.kind \notin {"WriteData", "CheckData"} \/ ~r.ok
                             THEN hist.want
                             ELSE IF name = "bytes" THEN <<value, hist.want[2]>>
                             ELSE <<hist.want[1], value>>]

AppendWriteData ==
    /\ Live /\ cmd.kind = "WriteData"
    /\ \E address \in AddressInputs, value \in ValueInputs :
        MethodWith("append", WriteDataAppend(cmd, address, value), FALSE,
                   <<address, value>>, NoRet)

AppendCheckData ==
    /\ Live /\ cmd.kind = "CheckData"
    /\ \E address \in AddressInputs, value \in ValueInputs :
        MethodWith("append", CheckDataAppend(cmd, address, value), FALSE,
                   <<address, value>>, NoRet)

AppendSet ==
    /\ Live /\ cmd.kind = "Set"
    /\ \E alg \in {23, 153}, eng \in {0, 1}, cfg \in {0, 256} :
        Method("append", SetAppend(cmd, alg, eng, cfg),
               alg \notin AlgorithmEnum \/ eng \notin EngineEnum)

AppendInitialize ==
    /\ Live /\ cmd.kind = "Initialize"
    /\ \E value \in ScalarInputs :
        MethodWith("append", InitializeAppend(cmd, value), FALSE, <<value>>, NoRet)

AppendUnlock ==
    /\ Live /\ cmd.kind = "Unlock"
    /\ \E value \in ScalarInputs :
        MethodWith("append", UnlockAppend(cmd, value), FALSE, <<value>>, NoRet)

AppendAuthData ==
    /\ Live /\ cmd.kind = "AuthData"
    /\ \E blk \in BlockInputs :
        Method("append", AuthDataAppend(cmd, blk[1], blk[2]), FALSE)

PopRecord ==
    /\ Live /\ cmd.kind \in BodyKinds
    /\ \E index \in -1..MaxBody :
        LET r == Pop(cmd, index) IN
        MethodWith("pop", r, FALSE, <<index>>,
                   IF r.ok THEN <<PopReturn(cmd, index)>> ELSE NoRet)

ClearBody ==
    /\ Live /\ cmd.kind \in BodyKinds
    /\ Method("clear", Clear(cmd), FALSE)

Parse ==
    /\ Live
    /\ \E in \in ParseInputs(cmd.kind) :
        LET r == ParseCmd(cmd, in.data, in.offset)
            avail == Len(in.data) - in.offset
        IN  /\ Len(r.cmd.body) <= MaxBody
            /\ cmd' = r.cmd
            /\ last' = [op |-> "parse", ok |-> r.ok, bad |-> FALSE,
                        arg |-> NoArg, ret |-> NoRet,
                        short |-> avail < HEADER_SIZE \/ avail < r.cmd.header.length,
                        over |-> r.rd > Len(in.data)
                                 \/ (r.rd > in.offset + HEADER_SIZE
                                     /\ r.rd > in.offset + r.cmd.header.length)]
            /\ hist' = [mode |-> Later(hist.mode, IF r.ok THEN "parsed" ELSE "pfail"),
                        want |-> NoWant]

Export ==
    /\ Live
    /\ last' = Call("export", ExportCmd(cmd).ok, FALSE)
    /\ UNCHANGED <<cmd, hist>>

\* Objects built through the constructors, the setters and append/pop/clear.
Next ==
    \/ NewWriteData \/ NewCheckData \/ NewNop \/ NewSet
    \/ NewInitialize \/ NewUnlock \/ NewInstallKey \/ NewAuthData
    \/ SetAttribute
    \/ AppendWriteData \/ AppendCheckData \/ AppendSet
    \/ AppendInitialize \/ AppendUnlock \/ AppendAuthData
    \/ PopRecord \/ ClearBody \/ Export

Spec == Init /\ [][Next]_vars

\* Objects that also parse buffers.
NextWire ==
    \/ NewDefault \/ NewSet \/ NewInitialize \/ NewUnlock
    \/ AppendWriteData \/ AppendCheckData \/ AppendSet
    \/ AppendInitialize \/ AppendUnlock \/ AppendAuthData
    \/ PopRecord \/ ClearBody \/ Parse \/ Export

SpecWire == Init /\ [][NextWire]_vars

(***************************************************************************)
(* Properties                                                              *)
(***************************************************************************)

\* header.length == HEADER_SIZE + the encoded size of what export writes
\* after the header: the fixed fields and every body record.
LengthInvariant(c) ==
    c.header.length = HEADER_SIZE + PrefixSize(c.kind) + Len(c.body) * ElemSize(c.kind)

\* A freshly constructed command of a class (default arguments).
Fresh(kind) ==
    CASE kind = "Nop" -> NopCmd(0).cmd
      [] kind = "WriteData" -> WriteDataCmd(4, 0).cmd
      [] kind = "CheckData" -> CheckDataCmd(4, 1).cmd
      [] kind = "Set" -> SetCmd(3, <<>>).cmd
      [] kind = "Initialize" -> InitializeCmd(0, <<>>).cmd
      [] kind = "Unlock" -> UnlockCmd(0, <<>>).cmd
      [] kind = "InstallKey" -> InstallKeyCmd(0, 3, 0, 0, 0, W(0, 0)).cmd
      [] kind = "AuthData" -> AuthDataCmd(0, 0, 3, 0, 0, W(0, 0)).cmd

\* The command was built from valid arguments: its flag is in its domain and
\* its fixed fields fit their slots (the other classes validate param).
ValidArguments(c) ==
    CASE c.kind = "InstallKey" -> c.header.param \in InsKeyEnum /\ PackBBBBL(c.pfx).ok
      [] c.kind = "AuthData" -> c.header.param \in AuthEnum /\ PackBBBBL(c.pfx).ok
      [] OTHER -> InU8(c.header.param)

Built == cmd.kind # "None"

\* C1: for the classes with a repeating body, a command built with default
\* arguments and then only appended to, popped from and cleared has
\* header.length == HEADER_SIZE + the size of what it exports after the header
\* (8 per Write/Check record, 4 per Set/Initialize/Unlock record, the 8-byte
\* fixed fields plus 8 per block for AuthData).
C1_LengthAfterMutations ==
    (cmd.kind \in BodyKinds /\ hist.mode = "dflt") => LengthInvariant(cmd)

\* C2: round trip: parsing the export of a command built from valid arguments
\* and append/pop/clear into a fresh command of the class succeeds, gives the
\* same header, fixed fields and body records, and exports the same bytes.
C2_RoundTrip ==
    (Built /\ hist.mode \in {"dflt", "pure"} /\ ValidArguments(cmd)) =>
        LET e == ExportCmd(cmd)
            r == ParseCmd(Fresh(cmd.kind), e.bytes, 0)
        IN  e.ok /\ r.ok /\ r.cmd = cmd /\ ExportCmd(r.cmd) = e

\* C3: the length invariant holds right after construction and right after
\* every successful parse (for NopCmd: length == HEADER_SIZE).
C3_LengthAfterInitAndParse ==
    (Built /\ last.op \in {"init", "parse"} /\ last.ok) => LengthInvariant(cmd)

\* C4: export returns exactly header.length bytes, so that two exported
\* records laid end to end are each recovered by parsing at an offset
\* advanced by the first record's header length.
C4_ExportLength ==
    (Built /\ hist.mode # "pfail") =>
        LET e == ExportCmd(cmd)
            r == ParseCmd(Fresh(cmd.kind), e.bytes \o e.bytes, cmd.header.length)
        IN  /\ e.ok
            /\ Len(e.bytes) = cmd.header.length
            /\ r.ok
            /\ r.cmd.header = cmd.header /\ r.cmd.pfx = cmd.pfx /\ r.cmd.body = cmd.body

\* C5: a constructor, setter or SetCmd.append call with an enumerated argument
\* outside its domain fails and leaves the command (or the absence of one) as
\* it was.
C5_DomainRejection ==
    [][(last'.op \in {"init", "set", "append"} /\ last'.bad)
          => (~last'.ok /\ cmd' = cmd)]_vars

\* C6: a failing append, pop or parse leaves the command in its pre-call
\* state: header, fixed fields and body.
C6_FailureAtomic ==
    [][(last'.op \in {"append", "pop", "parse"} /\ ~last'.ok) => cmd' = cmd]_vars

\* C7: parse fails whenever fewer bytes than the header, or than the length
\* the header declares, remain from offset; and a successful parse reads no
\* byte at or past offset + header.length nor past the end of the buffer.
C7_Truncation ==
    last.op = "parse" => /\ (last.short => ~last.ok)
                         /\ (last.ok => ~last.over)

\* The part of C7 the code keeps: for the classes with a body or fixed
\* fields, a buffer shorter than the declared length makes parse fail.
ShortBufferFails == (last.op = "parse" /\ last.short /\ cmd.kind # "Nop") => ~last.ok

Bytes(c) == IF c.kind = "WriteData" THEN WriteDataBytes(c) ELSE CheckDataBytes(c)
Ops(c) == IF c.kind = "WriteData" THEN WriteDataOps(c) ELSE CheckDataOps(c)

\* C8: for a Write/Check command whose byte-width bw and op-code op were last
\* written by the constructor or the setters, in any order,
\* param == ((op & 0x3) << 3) | (bw & 0x7), the getters return bw and op,
\* and bw = 2, op = 3 gives 0x1A.
C8_BitfieldPacking ==
    (cmd.kind \in {"WriteData", "CheckData"} /\ hist.mode \in {"dflt", "pure", "set"}) =>
        LET bw == hist.want[1]
            op == hist.want[2]
        IN  /\ bw \in {1, 2, 4} /\ op \in {0, 1, 2, 3}
            /\ cmd.header.param = BitOr(BitAnd(op, 3) * 8, BitAnd(bw, 7))
            /\ Bytes(cmd) = bw
            /\ Ops(cmd) = op
            /\ (bw = 2 /\ op = 3 => cmd.header.param = 26)

\* C8's case: byte-width 2 and op-code 3 written through the setters.
C8_Witness ==
    /\ cmd.kind = "WriteData" /\ last.op = "set" /\ last.ok
    /\ hist.want = <<2, 3>> /\ cmd.header.param = 26

\* A WriteDataCmd built with byte-width 4 and op-code write-value (the
\* defaults) that holds the one record (0x00000010, 0xDEADBEEF).
WriteDataScenario ==
    /\ cmd.kind = "WriteData" /\ hist.mode = "dflt"
    /\ cmd.body = <<<<W(0, 16), W(57005, 48879)>>>>

\* C9 as stated: the scenario's header has tag WriteData, length 12 and
\* param 0x00, and export is the header followed by 00 00 00 10 DE AD BE EF.
C9_ScenarioParamZero ==
    WriteDataScenario =>
        LET e == WriteDataExport(cmd) IN
        /\ cmd.header = [tag |-> CmdTag("WriteData"), length |-> 12, param |-> 0]
        /\ e.ok /\ Len(e.bytes) = 12
        /\ SubSeq(e.bytes, 1, 4) = HeaderExport(cmd.header).bytes
        /\ SubSeq(e.bytes, 5, 12) = <<0, 0, 0, 16, 222, 173, 190, 239>>

\* C9 amended: the scenario's header has tag WriteData, length 12 and param
\* 0x04 (byte-width 4 in bits 0..2, op-code 0 in bits 3..4), and export is
\* the header followed by 00 00 00 10 DE AD BE EF.
C9_Scenario ==
    WriteDataScenario =>
        LET e == WriteDataExport(cmd) IN
        /\ cmd.header = [tag |-> CmdTag("WriteData"), length |-> 12, param |-> 4]
        /\ e.ok /\ Len(e.bytes) = 12
        /\ SubSeq(e.bytes, 1, 4) = HeaderExport(cmd.header).bytes
        /\ SubSeq(e.bytes, 5, 12) = <<0, 0, 0, 16, 222, 173, 190, 239>>

\* C9's case: the scenario's command has been exported.
C9_Witness == WriteDataScenario /\ last.op = "export" /\ last.ok

\* C10: the header length of a constructed command is at least HEADER_SIZE.
C10_LengthAtLeastHeader ==
    (Built /\ hist.mode # "pfail") => cmd.header.length >= HEADER_SIZE

\* C11: for WriteDataCmd, CheckDataCmd, InitializeCmd and UnlockCmd, append
\* returns exactly when every operand lies in 0..0xFFFFFFFF, and then it has
\* added one record, made of the operands, at the end of the body and
\* increased header.length by the size of one record.
C11_AppendRange ==
    [][(last'.op = "append" /\ cmd.kind \in {"WriteData", "CheckData", "Initialize", "Unlock"})
          => LET a == last'.arg
                 rec == IF cmd.kind \in {"WriteData", "CheckData"} THEN a ELSE a[1]
             IN  /\ last'.ok <=> \A i \in 1..Len(a) : InU32(a[i])
                 /\ last'.ok => /\ cmd'.body = Append(cmd.body, rec)
                                /\ cmd'.header = [cmd.header EXCEPT
                                                    !.length = @ + ElemSize(cmd.kind)]
                 /\ ~last'.ok => cmd' = cmd]_vars

C13_ExportNeverFails == last.op = "export" => last.ok

====
